---- MODULE Spec2Model ----
(***************************************************************************)
(* A model of the Japanese date quiz (src/src/script.js): the calendar     *)
(* arithmetic, the question catalog and the quiz session driven by the     *)
(* "New Test" and "Reveal Answers" buttons.                                *)
(*                                                                         *)
(* Conventions.                                                            *)
(*  - A Date is a record [year, month, day] with month in 0..11, as the    *)
(*    getFullYear/getMonth/getDate of a local-midnight JavaScript Date.    *)
(*  - A value of Math.random() is the numerator k of k/RandDen, so that    *)
(*    0 <= k/RandDen < 1.  Undefined (-1) is JavaScript's undefined.       *)
(*  - Japanese text is transliterated to ASCII: hiragana as lower-case     *)
(*    romaji, every kanji as its reading in angle brackets (<nichi>).      *)
(***************************************************************************)
EXTENDS Integers, Sequences, FiniteSets, TLC

VARIABLES
    now,               \* wall clock: months since January of NowYear
    date,              \* main: let date
    questionGenerator, \* the catalog, as a list of template numbers
    currentQuestions,  \* main: let currentQuestions
    seeds,             \* main: let seeds
    fnBound,           \* showHideAnswersFunction is the session's showHideAnswers
    showAnswers,       \* main: let showAnswers
    revealLabel,       \* revealButtonRef.current.textContent
    calendarView,      \* what calendarParentRef shows
    questionView,      \* what questionHostRef shows, one entry per question
    answerView,        \* what each question's answer host shows
    thrown,            \* the error the last handler ended with, or "none"
    firstReveal,       \* the answers the first reveal of this session showed
    toggles,           \* clicks on the reveal button since the last newTest
    phase,             \* "boot" until main's first newTest, then "ready"
    pin,               \* input of the function under study
    pout               \* its result

vars == <<now, date, questionGenerator, currentQuestions, seeds, fnBound,
          showAnswers, revealLabel, calendarView, questionView, answerView,
          thrown, firstReveal, toggles, phase, pin, pout>>

sessionVars == <<now, date, questionGenerator, currentQuestions, seeds, fnBound,
                 showAnswers, revealLabel, calendarView, questionView,
                 answerView, thrown, firstReveal, toggles, phase>>

-----------------------------------------------------------------------------
(* Bounds *)

\* Math.random() yields k/RandDen for k in 0..RandDen-1.
RandDen == 31

\* The number of Math.random() streams a handler run may read.
NumTapes == 6

\* The wall clock runs over MaxNow months starting at January of NowYear.
MaxNow == 4

NowYear == 2026

-----------------------------------------------------------------------------
(* JavaScript values *)

Undefined == -1

Null == [year |-> 0, month |-> 0, day |-> 0]

UndefinedDate == [year |-> -1, month |-> -1, day |-> -1]

Max(a, b) == IF a >= b THEN a ELSE b

Min(a, b) == IF a <= b THEN a ELSE b

-----------------------------------------------------------------------------
(* The built-in Date *)

\* Days from 1970-01-01 to day d of month mp (March = 0) of the year yy
\* that starts in March.
DaysFromShifted(yy, mp, d) ==
    (yy \div 400) * 146097 + (yy % 400) * 365 + (yy % 400) \div 4
      - (yy % 400) \div 100 + (153 * mp + 2) \div 5 + d - 1 - 719468

\* Days from 1970-01-01 to the given civil date (month 0..11).
DaysFromCivil(y, m0, d) ==
    DaysFromShifted(IF m0 < 2 THEN y - 1 ELSE y, (m0 + 10) % 12, d)

\* The civil date of day doy of the year y that starts in March.
CivilFromMp(y, doy, mp) ==
    [year |-> IF mp < 10 THEN y ELSE y + 1,
     month |-> IF mp < 10 THEN mp + 2 ELSE mp - 10,
     day |-> doy - (153 * mp + 2) \div 5 + 1]

CivilFromDoy(y, doy) == CivilFromMp(y, doy, (5 * doy + 2) \div 153)

CivilFromYoe(era, doe, yoe) ==
    CivilFromDoy(yoe + era * 400, doe - (365 * yoe + yoe \div 4 - yoe \div 100))

CivilFromDoe(era, doe) ==
    CivilFromYoe(era, doe,
                 (doe - doe \div 1460 + doe \div 36524 - doe \div 146096) \div 365)

\* The civil date that lies z days after 1970-01-01.
CivilFromDays(z) ==
    CivilFromDoe((z + 719468) \div 146097, (z + 719468) % 146097)

\* new Date(y, m, d): month and day overflow are normalised.
NewDate(y, m, d) ==
    CivilFromDays(DaysFromCivil(y + m \div 12, m % 12, 1) + d - 1)

\* Date.prototype.getDay: Sunday = 0 .. Saturday = 6.
getDay(dt) == (DaysFromCivil(dt.year, dt.month, dt.day) + 4) % 7

\* Date.prototype.valueOf, in days (every Date here is a local midnight).
valueOf(dt) == DaysFromCivil(dt.year, dt.month, dt.day)

\* day.setDate(n) on a copy of dt.
setDateWithinMonth(dt, n) == [dt EXCEPT !.day = Max(1, Min(n, 28))]

setDate(dt, n) == NewDate(dt.year, dt.month, n)

\* new Date() at wall-clock month n: only its year and month are read.
NowDate(n) == [year |-> NowYear + n \div 12, month |-> n % 12, day |-> 1]

-----------------------------------------------------------------------------
(* Random helpers *)

\* getRandomInt(min, max, seed = Math.random()); rnd is the default's draw.
getRandomInt(min, max, seed, rnd) ==
    ((IF seed = Undefined THEN rnd ELSE seed) * (max - min + 1)) \div RandDen + min

\* list[i] of a JavaScript array of Dates: undefined outside the array.
DateAt(list, i) ==
    IF i >= 0 /\ i < Len(list) THEN list[i + 1] ELSE UndefinedDate

\* randomFromList(list, seed = Math.random()); rnd is the default's draw.
randomFromList(list, seed, rnd) ==
    DateAt(list, getRandomInt(0, Len(list) - 1,
                              IF seed = Undefined THEN rnd ELSE seed, rnd))

\* The k-th Math.random() of the handler run that reads stream t.
Draw(t, k) == (19 * t + k * (t + 1)) % RandDen

-----------------------------------------------------------------------------
(* getWeeks *)

EmptyWeek == [i \in 1..7 |-> Null]

\* list.filter((e) => e) and list.filter((x) => x !== null)
RECURSIVE FilterDates(_)
FilterDates(list) ==
    IF list = <<>> THEN <<>>
    ELSE IF Head(list) = Null THEN FilterDates(Tail(list))
    ELSE <<Head(list)>> \o FilterDates(Tail(list))

\* Array.prototype.flat on a list of rows.
RECURSIVE Flat(_)
Flat(rows) ==
    IF rows = <<>> THEN <<>> ELSE Head(rows) \o Flat(Tail(rows))

\* The row is closed at a Saturday or at the last day of the month.
WeekClosedOnSunday(days, i) == getDay(days[i]) = 0 \/ i = Len(days)

WeekClosedMissingLast(days, i) == getDay(days[i]) = 6

WeekClosed(days, i) == getDay(days[i]) = 6 \/ i = Len(days)

\* The loop of getWeeks from day i on; WeeksStep is its body once days[i]
\* is placed in the current week.
RECURSIVE WeeksLoop(_, _, _, _)
RECURSIVE WeeksStep(_, _, _, _)
WeeksLoop(days, i, weeks, currentWeek) ==
    IF i > Len(days) THEN weeks
    ELSE WeeksStep(days, i, weeks,
                   [currentWeek EXCEPT ![getDay(days[i]) + 1] = days[i]])

WeeksStep(days, i, weeks, filled) ==
    IF WeekClosed(days, i)
    THEN WeeksLoop(days, i + 1, Append(weeks, filled), EmptyWeek)
    ELSE WeeksLoop(days, i + 1, weeks, filled)

\* The body of getWeeks for the month of a date.
weeksOfMonth(year, month) ==
    WeeksLoop([i \in 1..(NewDate(year, month + 1, 0).day) |->
                  NewDate(year, month, i)],
              1, <<>>, EmptyWeek)

\* The years a Date of the quiz or of the wall clock can lie in.
CalendarYears ==
    Min(2018, NowYear)..Max(2050, NowYear + MaxNow \div 12)

\* getWeeks of every month, computed once.
WeeksTable ==
    [year \in CalendarYears |-> [month \in 0..11 |-> weeksOfMonth(year, month)]]

getWeeks(dt) == WeeksTable[dt.year][dt.month]

-----------------------------------------------------------------------------
(* generateRandomDate *)

\* The padding kept away from a partial first or last week.
PaddingNone(n) == 0

Padding(n) == Max(2 - n, 0)

\* The random day: daysInMonth[getRandomInt(topPadding, length - bottomPadding - 1)].
pickDayUpToLength(daysInMonth, topPadding, bottomPadding, r3) ==
    DateAt(daysInMonth,
           getRandomInt(topPadding, Len(daysInMonth) - bottomPadding,
                        Undefined, r3))

pickDay(daysInMonth, topPadding, bottomPadding, r3) ==
    DateAt(daysInMonth,
           getRandomInt(topPadding, Len(daysInMonth) - bottomPadding - 1,
                        Undefined, r3))

\* generateRandomDate once the calendar of the drawn month is built.
randomDayOf(calendar, r3) ==
    pickDay(Flat(SubSeq(calendar, 2, Len(calendar) - 1)),
            Padding(Len(FilterDates(calendar[1]))),
            Padding(Len(FilterDates(calendar[Len(calendar)]))),
            r3)

\* r1, r2, r3 are the three draws of Math.random().
generateRandomDateFromEpoch(r1, r2, r3) ==
    randomDayOf(getWeeks(NewDate(getRandomInt(2018, 2049, Undefined, r1),
                                 getRandomInt(0, 11, Undefined, r2), 1)),
                r3)

generateRandomDate(r1, r2, r3) ==
    randomDayOf(getWeeks(NewDate(getRandomInt(2019, 2049, Undefined, r1),
                                 getRandomInt(0, 11, Undefined, r2), 1)),
                r3)

-----------------------------------------------------------------------------
(* The lookup tables *)

\* const daysOfWeek
daysOfWeek == <<
    [english |-> "Sunday", kanji |-> "<nichi><you><nichi>", hiragana |-> "nichiyoubi"],
    [english |-> "Monday", kanji |-> "<gatsu><you><nichi>", hiragana |-> "getsuyoubi"],
    [english |-> "Tuesday", kanji |-> "<ka><you><nichi>", hiragana |-> "kayoubi"],
    [english |-> "Wednesday", kanji |-> "<sui><you><nichi>", hiragana |-> "suiyoubi"],
    [english |-> "Thursday", kanji |-> "<moku><you><nichi>", hiragana |-> "mokuyoubi"],
    [english |-> "Friday", kanji |-> "<kin><you><nichi>", hiragana |-> "kinyoubi"],
    [english |-> "Saturday", kanji |-> "<do><you><nichi>", hiragana |-> "doyoubi"]
>>

\* const days
days == <<
    [english |-> "1st", kanji |-> "<ichi><nichi>", hiragana |-> "tsuitachi"],
    [english |-> "2nd", kanji |-> "<ni><nichi>", hiragana |-> "futsuka"],
    [english |-> "3rd", kanji |-> "<san><nichi>", hiragana |-> "mikka"],
    [english |-> "4th", kanji |-> "<yon><nichi>", hiragana |-> "yokka"],
    [english |-> "5th", kanji |-> "<go><nichi>", hiragana |-> "itsuka"],
    [english |-> "6th", kanji |-> "<roku><nichi>", hiragana |-> "muika"],
    [english |-> "7th", kanji |-> "<nana><nichi>", hiragana |-> "nanoka"],
    [english |-> "8th", kanji |-> "<hachi><nichi>", hiragana |-> "youka"],
    [english |-> "9th", kanji |-> "<kyuu><nichi>", hiragana |-> "kokonoka"],
    [english |-> "10th", kanji |-> "<juu><nichi>", hiragana |-> "tooka"],
    [english |-> "11th", kanji |-> "<juu><ichi><nichi>", hiragana |-> "juuichinichi"],
    [english |-> "12th", kanji |-> "<juu><ni><nichi>", hiragana |-> "juuninichi"],
    [english |-> "13th", kanji |-> "<juu><san><nichi>", hiragana |-> "juusannichi"],
    [english |-> "14th", kanji |-> "<juu><yon><nichi>", hiragana |-> "juuyokka"],
    [english |-> "15th", kanji |-> "<juu><go><nichi>", hiragana |-> "juugonichi"],
    [english |-> "16th", kanji |-> "<juu><roku><nichi>", hiragana |-> "juurokunichi"],
    [english |-> "17th", kanji |-> "<juu><nana><nichi>", hiragana |-> "juushichinichi"],
    [english |-> "18th", kanji |-> "<juu><hachi><nichi>", hiragana |-> "juuhachinichi"],
    [english |-> "19th", kanji |-> "<juu><kyuu><nichi>", hiragana |-> "juukunichi"],
    [english |-> "20th", kanji |-> "<ni><juu><nichi>", hiragana |-> "hatsuka"],
    [english |-> "21st", kanji |-> "<ni><juu><ichi><nichi>", hiragana |-> "nijuuichinichi"],
    [english |-> "22nd", kanji |-> "<ni><juu><ni><nichi>", hiragana |-> "nijuuninichi"],
    [english |-> "23rd", kanji |-> "<ni><juu><san><nichi>", hiragana |-> "nijuusannichi"],
    [english |-> "24th", kanji |-> "<ni><juu><yon><nichi>", hiragana |-> "nijuuyokka"],
    [english |-> "25th", kanji |-> "<ni><juu><go><nichi>", hiragana |-> "nijuugonichi"],
    [english |-> "26th", kanji |-> "<ni><juu><roku><nichi>", hiragana |-> "nijuurokunichi"],
    [english |-> "27th", kanji |-> "<ni><juu><nana><nichi>", hiragana |-> "nijuushichinichi"],
    [english |-> "28th", kanji |-> "<ni><juu><hachi><nichi>", hiragana |-> "nijuuhachinichi"],
    [english |-> "29th", kanji |-> "<ni><juu><kyuu><nichi>", hiragana |-> "nijuukunichi"],
    [english |-> "30th", kanji |-> "<san><juu><nichi>", hiragana |-> "sanjuunichi"],
    [english |-> "31st", kanji |-> "<san><juu><ichi><nichi>", hiragana |-> "sanjuuichinichi"]
>>

\* const months
months == <<
    [english |-> "January", kanji |-> "<ichi><gatsu>", hiragana |-> "ichigatsu"],
    [english |-> "February", kanji |-> "<ni><gatsu>", hiragana |-> "nigatsu"],
    [english |-> "March", kanji |-> "<san><gatsu>", hiragana |-> "sangatsu"],
    [english |-> "April", kanji |-> "<yon><gatsu>", hiragana |-> "shigatsu"],
    [english |-> "May", kanji |-> "<go><gatsu>", hiragana |-> "gogatsu"],
    [english |-> "June", kanji |-> "<roku><gatsu>", hiragana |-> "rokugatsu"],
    [english |-> "July", kanji |-> "<nana><gatsu>", hiragana |-> "shichigatsu"],
    [english |-> "August", kanji |-> "<hachi><gatsu>", hiragana |-> "hachigatsu"],
    [english |-> "September", kanji |-> "<kyuu><gatsu>", hiragana |-> "kugatsu"],
    [english |-> "October", kanji |-> "<juu><gatsu>", hiragana |-> "juugatsu"],
    [english |-> "November", kanji |-> "<juu><ichi><gatsu>", hiragana |-> "juuichigatsu"],
    [english |-> "December", kanji |-> "<juu><ni><gatsu>", hiragana |-> "juunigatsu"]
>>

\* table[i] of a JavaScript array: defined only inside the array.
Has(table, i) == i >= 0 /\ i < Len(table)

At(table, i) == table[i + 1]

-----------------------------------------------------------------------------
(* dynamicYear *)

\* The remainder operator of JavaScript: the sign is that of the dividend.
JsRem(a, b) == IF a >= 0 THEN a % b ELSE -((-a) % b)

\* kanjiSubs[d]; a missing key concatenates as "undefined".
kanjiSubs(d) ==
    IF d \in 1..9
    THEN <<"<ichi>", "<ni>", "<san>", "<yon>", "<go>", "<roku>", "<nana>",
           "<hachi>", "<kyuu>">>[d]
    ELSE "undefined"

toKanjiKeepsOne(number) ==
    LET thousands == number \div 1000
        hundreds == JsRem(number, 1000) \div 100
        tens == JsRem(number, 100) \div 10
        ones == JsRem(number, 10)
        k1 == IF thousands > 0
              THEN (IF thousands = 1 THEN "" ELSE kanjiSubs(thousands)) \o "<sen>"
              ELSE ""
        k2 == IF hundreds > 0
              THEN (IF hundreds = 1 THEN "" ELSE kanjiSubs(hundreds)) \o "<hyaku>"
              ELSE ""
        k3 == IF tens > 0 THEN kanjiSubs(tens) \o "<juu>" ELSE ""
        k4 == IF ones > 0 THEN kanjiSubs(ones) ELSE ""
    IN  IF number = 0 THEN "<zero>" ELSE k1 \o k2 \o k3 \o k4

toKanji(number) ==
    LET thousands == number \div 1000
        hundreds == JsRem(number, 1000) \div 100
        tens == JsRem(number, 100) \div 10
        ones == JsRem(number, 10)
        k1 == IF thousands > 0
              THEN (IF thousands = 1 THEN "" ELSE kanjiSubs(thousands)) \o "<sen>"
              ELSE ""
        k2 == IF hundreds > 0
              THEN (IF hundreds = 1 THEN "" ELSE kanjiSubs(hundreds)) \o "<hyaku>"
              ELSE ""
        k3 == IF tens > 0
              THEN (IF tens = 1 THEN "" ELSE kanjiSubs(tens)) \o "<juu>"
              ELSE ""
        k4 == IF ones > 0 THEN kanjiSubs(ones) ELSE ""
    IN  IF number = 0 THEN "<zero>" ELSE k1 \o k2 \o k3 \o k4

\* hiraganaSubs[d]; a missing key concatenates as "undefined".
hiraganaSubsShi(d) ==
    IF d \in 1..9
    THEN <<"ichi", "ni", "san", "shi", "go", "roku", "nana", "hachi",
           "kyuu">>[d]
    ELSE "undefined"

hiraganaSubs(d) ==
    IF d \in 1..9
    THEN <<"ichi", "ni", "san", "yon", "go", "roku", "nana", "hachi",
           "kyuu">>[d]
    ELSE "undefined"

toHiraganaRegularSix(number) ==
    LET thousands == number \div 1000
        hundreds == JsRem(number, 1000) \div 100
        tens == JsRem(number, 100) \div 10
        ones == JsRem(number, 10)
        h1 == IF thousands > 0
              THEN CASE thousands = 1 -> "sen"
                     [] thousands = 3 -> "sanzen"
                     [] thousands = 8 -> "hassen"
                     [] OTHER -> hiraganaSubs(thousands) \o "sen"
              ELSE ""
        h2 == IF hundreds > 0
              THEN CASE hundreds = 1 -> "hyaku"
                     [] hundreds = 3 -> "sanbyaku"
                     [] hundreds = 8 -> "happyaku"
                     [] OTHER -> hiraganaSubs(hundreds) \o "hyaku"
              ELSE ""
        h3 == IF tens > 0
              THEN (IF tens = 1 THEN "" ELSE hiraganaSubs(tens)) \o "juu"
              ELSE ""
        h4 == IF ones > 0 THEN hiraganaSubs(ones) ELSE ""
    IN  IF number = 0 THEN "rei" ELSE h1 \o h2 \o h3 \o h4

toHiragana(number) ==
    LET thousands == number \div 1000
        hundreds == JsRem(number, 1000) \div 100
        tens == JsRem(number, 100) \div 10
        ones == JsRem(number, 10)
        h1 == IF thousands > 0
              THEN CASE thousands = 1 -> "sen"
                     [] thousands = 3 -> "sanzen"
                     [] thousands = 8 -> "hassen"
                     [] OTHER -> hiraganaSubs(thousands) \o "sen"
              ELSE ""
        h2 == IF hundreds > 0
              THEN CASE hundreds = 1 -> "hyaku"
                     [] hundreds = 3 -> "sanbyaku"
                     [] hundreds = 6 -> "roppyaku"
                     [] hundreds = 8 -> "happyaku"
                     [] OTHER -> hiraganaSubs(hundreds) \o "hyaku"
              ELSE ""
        h3 == IF tens > 0
              THEN (IF tens = 1 THEN "" ELSE hiraganaSubs(tens)) \o "juu"
              ELSE ""
        h4 == IF ones > 0 THEN hiraganaSubs(ones) ELSE ""
    IN  IF number = 0 THEN "rei" ELSE h1 \o h2 \o h3 \o h4

dynamicYearFromFirstYear(year) ==
    LET imperialYear == year - 2019
    IN  [imperialYear |-> imperialYear,
         imperialEnglish |-> "Reiwa " \o ToString(imperialYear),
         imperialKanji |-> "<rei><wa>" \o toKanji(imperialYear) \o "<nen>",
         imperialHiragana |-> "reiwa" \o toHiragana(imperialYear) \o "nen",
         westernEnglish |-> ToString(year),
         westernKanji |-> toKanji(year) \o "<nen>",
         westernHiragana |-> toHiragana(year) \o "nen"]

dynamicYear(year) ==
    LET imperialYear == year - 2018
    IN  [imperialYear |-> imperialYear,
         imperialEnglish |-> "Reiwa " \o ToString(imperialYear),
         imperialKanji |-> "<rei><wa>" \o toKanji(imperialYear) \o "<nen>",
         imperialHiragana |-> "reiwa" \o toHiragana(imperialYear) \o "nen",
         westernEnglish |-> ToString(year),
         westernKanji |-> toKanji(year) \o "<nen>",
         westernHiragana |-> toHiragana(year) \o "nen"]

\* elements.join(' -> ')
RECURSIVE joinWithArrow(_)
joinWithArrow(elements) ==
    IF Len(elements) = 0 THEN ""
    ELSE IF Len(elements) = 1 THEN elements[1]
    ELSE elements[1] \o " -> " \o joinWithArrow(Tail(elements))

-----------------------------------------------------------------------------
(* The question catalog.  A template function returns the spans it builds  *)
(* and the targetDay it picked, or the TypeError it ends with.             *)

Built(spans, target) ==
    [error |-> "none", spans |-> spans, target |-> target]

TypeError(what) == [error |-> what, spans |-> <<>>, target |-> Null]

\* The number of templates in questionGenerator.
CatalogSize == 22

\* The week-relative templates: weekday -> date, then date -> weekday.
WeekdayToDate == 17..19

DateToWeekday == 20..22

WeekRelative == WeekdayToDate \cup DateToWeekday

\* The row offset of a week-relative template: last, this, next week.
WeekOffset(t) == ((t - 17) % 3) - 1

\* The span that joins a title and the three forms of a table entry.
entryAnswer(title, e, target) ==
    Built(<<joinWithArrow(<<title, e.english, e.kanji, e.hiragana>>)>>, target)

\* The answers of the five day-of-week templates.
dayOfWeekAnswer(title, dt, k) ==
    entryAnswer(title,
                At(daysOfWeek,
                   getDay(IF k = 0 THEN dt ELSE setDate(dt, dt.day + k)) % 7),
                Null)

\* The answers of the five day-of-month templates.
dayOfMonthAnswerOneBased(title, dt, k) ==
    IF Has(days, dt.day + k)
    THEN entryAnswer(title, At(days, dt.day + k), Null)
    ELSE TypeError("days")

dayOfMonthAnswer(title, dt, k) ==
    IF Has(days, dt.day - 1 + k)
    THEN entryAnswer(title, At(days, dt.day - 1 + k), Null)
    ELSE TypeError("days")

\* The index the "last month" and "next month" answers read.
lastMonthIndex(dt) == Max(dt.month - 1, 0)

nextMonthIndex(dt) == Min(dt.month + 1, 12)

\* The answers of the three month templates.
monthAnswer(title, i) ==
    IF Has(months, i) THEN entryAnswer(title, At(months, i), Null)
    ELSE TypeError("months")

\* The three spans of a year answer.
yearSpans(title, answers) ==
    Built(<<joinWithArrow(<<title,
                            answers.westernEnglish \o " - 2019 + 1",
                            answers.imperialEnglish,
                            answers.imperialKanji,
                            answers.imperialHiragana>>),
            "OR",
            joinWithArrow(<<answers.westernEnglish,
                            answers.westernKanji,
                            answers.westernHiragana>>)>>,
          Null)

\* The answers of the three year templates.
yearAnswer(title, dt, k) == yearSpans(title, dynamicYear(dt.year + k))

\* The grid a week-relative template searches.
weeksSearched(dt, nowv) == getWeeks(NowDate(nowv))

\* The least element of a set of numbers, minus one; -1 for the empty set.
IndexOfFirst(hits) ==
    IF hits = {} THEN -1 ELSE (CHOOSE i \in hits : \A j \in hits : i <= j) - 1

\* weeks.findIndex((week) => week.some((day) => day && day.getDate() === date.getDate()))
findIndex(weeks, dt) ==
    IndexOfFirst({i \in 1..Len(weeks) :
                     \E s \in 1..7 :
                        weeks[i][s] # Null /\ weeks[i][s].day = dt.day})

\* The row weeks[currentWeekIndex + off] exists.
weekRowExists(weeks, dt, off) == Has(weeks, findIndex(weeks, dt) + off)

\* randomFromList(weeks[currentWeekIndex + off].filter((e) => e), seed)
targetDay(weeks, dt, seed, rnd, off) ==
    randomFromList(FilterDates(At(weeks, findIndex(weeks, dt) + off)), seed, rnd)

\* The tense of a week-relative question: was (last week), is (next week),
\* and for this week was exactly when targetDay < date.
IsPast(off, target, dt) ==
    \/ off = -1
    \/ off = 0 /\ valueOf(target) < valueOf(dt)

\* '...no' of last, this and next week.
weekPrefix(off) ==
    CASE off = -1 -> "<saki><shuu>no"
      [] off = 0 -> "<ima><shuu>no"
      [] off = 1 -> "<rai><shuu>no"

\* "last week's", "this week's", "next week's" after the verb.
weekPhrase(off, target, dt) ==
    (IF IsPast(off, target, dt) THEN "was" ELSE "is") \o
    (CASE off = -1 -> " last week's "
       [] off = 0 -> " this week's "
       [] off = 1 -> " next week's ")

\* The text of a weekday -> date question about targetDay.
weekdayToDateText(off, dt, target) ==
    Built(<<weekPrefix(off) \o At(daysOfWeek, getDay(target) % 7).kanji \o
            "ha<nani><nichi>" \o
            (IF IsPast(off, target, dt) THEN "deshitaka?" ELSE "desuka?")>>,
          target)

\* createQuestion of the weekday -> date templates, on the grid it searches.
weekdayToDateQuestion(weeks, off, dt, seed, rnd) ==
    IF ~weekRowExists(weeks, dt, off) THEN TypeError("weeks")
    ELSE weekdayToDateText(off, dt, targetDay(weeks, dt, seed, rnd, off))

\* What the answer of a weekday -> date template states about targetDay.
weekdayToDateFact(target) == At(daysOfWeek, getDay(target) % 7)

\* The span of a weekday -> date answer about targetDay.
weekdayToDateSpan(off, dt, target) ==
    entryAnswer("What date " \o weekPhrase(off, target, dt) \o
                At(daysOfWeek, getDay(target) % 7).english \o "?",
                weekdayToDateFact(target), target)

\* answer of the weekday -> date templates, on the grid it searches.
weekdayToDateAnswer(weeks, off, dt, seed, rnd) ==
    IF ~weekRowExists(weeks, dt, off) THEN TypeError("weeks")
    ELSE weekdayToDateSpan(off, dt, targetDay(weeks, dt, seed, rnd, off))

\* The text of a date -> weekday question about targetDay.
dateToWeekdayText(off, dt, target) ==
    Built(<<weekPrefix(off) \o At(days, target.day - 1).kanji \o
            "ha<nani><you><nichi>" \o
            (IF IsPast(off, target, dt) THEN "deshitaka?" ELSE "desuka?")>>,
          target)

\* createQuestion of the date -> weekday templates, on the grid it searches.
dateToWeekdayQuestion(weeks, off, dt, seed, rnd) ==
    IF ~weekRowExists(weeks, dt, off) THEN TypeError("weeks")
    ELSE dateToWeekdayText(off, dt, targetDay(weeks, dt, seed, rnd, off))

\* The span of a date -> weekday answer about targetDay.
dateToWeekdaySpan(off, dt, target) ==
    entryAnswer("What day " \o weekPhrase(off, target, dt) \o
                At(days, target.day - 1).english \o "?",
                At(daysOfWeek, getDay(target) % 7), target)

\* answer of the date -> weekday templates, on the grid it searches.
dateToWeekdayAnswer(weeks, off, dt, seed, rnd) ==
    IF ~weekRowExists(weeks, dt, off) THEN TypeError("weeks")
    ELSE dateToWeekdaySpan(off, dt, targetDay(weeks, dt, seed, rnd, off))

\* The question text of the templates that pick nothing.
fixedQuestion ==
    <<"<ichi><saku><nichi>ha<nani><you><nichi>deshitaka?",
      "<saku><nichi>ha<nani><you><nichi>deshitaka?",
      "<ima><nichi>ha<nani><you><nichi>desuka?",
      "<mei><nichi>ha<nani><you><nichi>desuka?",
      "<mei><ato><nichi>ha<nani><you><nichi>desuka?",
      "<ichi><saku><nichi>ha<nani><nichi>deshitaka?",
      "<saku><nichi>ha<nani><nichi>deshitaka?",
      "<ima><nichi>ha<nani><nichi>desuka?",
      "<mei><nichi>ha<nani><nichi>desuka?",
      "<mei><ato><nichi>ha<nani><nichi>desuka?",
      "<saki><gatsu>ha<nani><gatsu>deshitaka?",
      "<ima><gatsu>ha<nani><gatsu>desuka?",
      "<rai><gatsu>ha<nani><gatsu>desuka?",
      "<kyo><nen>ha<nani><nen>deshitaka?",
      "<ima><nen>ha<nani><nen>desuka?",
      "<rai><nen>ha<nani><nen>desuka?">>

\* questionGenerator[t - 1].createQuestion(date, seed)
createQuestion(t, dt, seed, rnd, nowv) ==
    CASE t \in 1..16 -> Built(<<fixedQuestion[t]>>, Null)
      [] t \in WeekdayToDate ->
            weekdayToDateQuestion(weeksSearched(dt, nowv), WeekOffset(t), dt, seed, rnd)
      [] t \in DateToWeekday ->
            dateToWeekdayQuestion(weeksSearched(dt, nowv), WeekOffset(t), dt, seed, rnd)

\* questionGenerator[t - 1].answer(date, seed)
answer(t, dt, seed, rnd, nowv) ==
    CASE t = 1 -> dayOfWeekAnswer("What day was it the day before yesterday?", dt, -2)
      [] t = 2 -> dayOfWeekAnswer("What day was it yesterday?", dt, -1)
      [] t = 3 -> dayOfWeekAnswer("What day is it today?", dt, 0)
      [] t = 4 -> dayOfWeekAnswer("What day is it tomorrow?", dt, 1)
      [] t = 5 -> dayOfWeekAnswer("What day is it the day after tomorrow?", dt, 2)
      [] t = 6 -> dayOfMonthAnswer("What date was it the day before yesterday?", dt, -2)
      [] t = 7 -> dayOfMonthAnswer("What date was it yesterday?", dt, -1)
      [] t = 8 -> dayOfMonthAnswer("What date is it today?", dt, 0)
      [] t = 9 -> dayOfMonthAnswer("What date is it tomorrow?", dt, 1)
      [] t = 10 -> dayOfMonthAnswer("What date is it the day after tomorrow?", dt, 2)
      [] t = 11 -> monthAnswer("What month was it last month?", lastMonthIndex(dt))
      [] t = 12 -> monthAnswer("What month is it this month?", dt.month)
      [] t = 13 -> monthAnswer("What month is it next month?", nextMonthIndex(dt))
      [] t = 14 -> yearAnswer("What year was it last year?", dt, -1)
      [] t = 15 -> yearAnswer("What year is it this year?", dt, 0)
      [] t = 16 -> yearAnswer("What year is it next year?", dt, 1)
      [] t \in WeekdayToDate ->
            weekdayToDateAnswer(weeksSearched(dt, nowv), WeekOffset(t), dt, seed, rnd)
      [] t \in DateToWeekday ->
            dateToWeekdayAnswer(weeksSearched(dt, nowv), WeekOffset(t), dt, seed, rnd)

-----------------------------------------------------------------------------
(* shuffle *)

\* [a[i], a[j]] = [a[j], a[i]] on 0-based indices.
SwapOverwrite(a, i, j) == [a EXCEPT ![i + 1] = a[j + 1]]

Swap(a, i, j) == [a EXCEPT ![i + 1] = a[j + 1], ![j + 1] = a[i + 1]]

\* The while loop of shuffle; the draws are those of stream t from k on.
RECURSIVE ShuffleLoop(_, _, _, _)
ShuffleLoop(arrayCopy, currentIndex, t, k) ==
    IF currentIndex = 0 THEN arrayCopy
    ELSE ShuffleLoop(Swap(arrayCopy, currentIndex - 1,
                          (Draw(t, k) * currentIndex) \div RandDen),
                     currentIndex - 1, t, k + 1)

\* shuffle(array): the array it was given and the shuffled copy it returns.
shuffleTail(array, t, k) ==
    [array |-> array,
     arrayCopy |-> ShuffleLoop(Tail(array), Len(array) - 1, t, k)]

shuffle(array, t, k) ==
    [array |-> array, arrayCopy |-> ShuffleLoop(array, Len(array), t, k)]

-----------------------------------------------------------------------------
(* The seeds *)

\* An array slot that was never assigned.
Hole == -2

\* Array(n)
ArrayOfLength(n) == [i \in 1..n |-> Hole]

\* array.map(() => Math.random()): map skips the slots never assigned.
MapRandom(array, t, k) ==
    [i \in 1..Len(array) |->
        IF array[i] = Hole THEN Hole
        ELSE Draw(t, k + Cardinality({j \in 1..(i - 1) : array[j] # Hole}))]

\* The calls of the callback that map makes.
MapCalls(array) == Cardinality({j \in 1..Len(array) : array[j] # Hole})

\* array[i - 1]: a slot never assigned reads as undefined.
Element(array, i) ==
    IF i \in 1..Len(array) /\ array[i] # Hole THEN array[i] ELSE Undefined

-----------------------------------------------------------------------------
(* Questions *)

\* An answer host with no children.
EmptyHost == Built(<<>>, Null)

\* A template function draws Math.random() when it picks with no seed.
Draws(t, seed) == IF t \in WeekRelative /\ seed = Undefined THEN 1 ELSE 0

\* The draws made before question i, when no question before it threw.
RECURSIVE DrawsBefore(_, _, _)
DrawsBefore(questions, sds, i) ==
    IF i <= 1 THEN 0
    ELSE DrawsBefore(questions, sds, i - 1)
           + Draws(questions[i - 1], Element(sds, i - 1))

\* The first question whose template function throws, or 0.
FirstThrow(results) ==
    IndexOfFirst({i \in 1..Len(results) : results[i].error # "none"}) + 1

\* The list of rendered questions, or the error of the first call that throws.
QuestionsOutcome(results, bad) ==
    IF bad = 0 THEN [error |-> "none", view |-> results]
    ELSE [error |-> results[bad].error, view |-> <<>>]

QuestionsRendered(results) == QuestionsOutcome(results, FirstThrow(results))

\* questions.map(... question.createQuestion(date, seeds[index]) ...)
QuestionsMap(questions, sds, dt, nowv, t, k) ==
    QuestionsRendered(
        [i \in 1..Len(questions) |->
            createQuestion(questions[i], dt, Element(sds, i),
                           Draw(t, k + DrawsBefore(questions, sds, i)), nowv)])

\* The hosts after showHideAnswers(true): the loop ends at the first answer
\* that throws, after clearing its host.
AnswersOutcome(results, bad, view) ==
    IF bad = 0 THEN [error |-> "none", view |-> results]
    ELSE [error |-> results[bad].error,
          view |-> [i \in 1..Len(view) |->
                       IF i < bad THEN results[i]
                       ELSE IF i = bad THEN EmptyHost
                       ELSE view[i]]]

AnswersRendered(results, view) == AnswersOutcome(results, FirstThrow(results), view)

\* showHideAnswers(show): every host is cleared and, when showing, filled
\* with its answer.
showHideAnswers(show, questions, sds, dt, nowv, t, view) ==
    IF ~show
    THEN [error |-> "none", view |-> [i \in 1..Len(view) |-> EmptyHost]]
    ELSE AnswersRendered(
             [i \in 1..Len(view) |->
                 answer(questions[i], dt, Element(sds, i),
                        Draw(t, DrawsBefore(questions, sds, i)), nowv)],
             view)

\* Calendar(date): the header's date and the grid with its active day.
Calendar(dt) == [date |-> dt, weeks |-> getWeeks(dt)]

-----------------------------------------------------------------------------
(* The session *)

Tapes == 0..(NumTapes - 1)

NoInput == [r1 |-> 0, r2 |-> 0, r3 |-> 0]

NoResult == [fn |-> "none", date |-> Null, weeks |-> <<>>]

NoCalendar == [date |-> Null, weeks |-> <<>>]

\* No reveal has happened in this session.
NoReveal == <<>>

\* main, up to its call of newTest.
Init ==
    /\ now \in 0..(MaxNow - 1)
    /\ date = NowDate(now)
    /\ questionGenerator = [i \in 1..CatalogSize |-> i]
    /\ currentQuestions = <<>>
    /\ seeds = <<>>
    /\ fnBound = FALSE
    /\ showAnswers = FALSE
    /\ revealLabel = "Reveal Answers"
    /\ calendarView = NoCalendar
    /\ questionView = <<>>
    /\ answerView = <<>>
    /\ thrown = "none"
    /\ firstReveal = NoReveal
    /\ toggles = "none"
    /\ phase = "boot"
    /\ pin = NoInput
    /\ pout = NoResult

\* newTest, reading the stream t of Math.random().
NewTest(t) ==
    \E newDate \in {generateRandomDate(Draw(t, 0), Draw(t, 1), Draw(t, 2))} :
    \E shuffled \in {shuffle(questionGenerator, t, 3)} :
    \E newSeeds \in {MapRandom(ArrayOfLength(Len(shuffled.arrayCopy)), t,
                               3 + Len(questionGenerator))} :
    \E k \in {3 + Len(questionGenerator)
                + MapCalls(ArrayOfLength(Len(shuffled.arrayCopy)))} :
    \E made \in {QuestionsMap(shuffled.arrayCopy, newSeeds, newDate, now, t, k)} :
        /\ date' = newDate
        /\ questionGenerator' = shuffled.array
        /\ currentQuestions' = shuffled.arrayCopy
        /\ seeds' = newSeeds
        /\ showAnswers' = FALSE
        /\ revealLabel' = "Reveal Answers"
        /\ calendarView' = Calendar(newDate)
        /\ questionView' = made.view
        /\ answerView' = [i \in 1..Len(made.view) |-> EmptyHost]
        /\ fnBound' = (made.error = "none")
        /\ thrown' = made.error
        /\ firstReveal' = NoReveal
        /\ toggles' = "none"
        /\ phase' = "ready"
        /\ UNCHANGED <<now, pin, pout>>

\* The Date an answer function was given, after the call: the day-of-week
\* templates call setDate on a copy, new Date(date), the others only read it.
argumentAfterAliased(t, dt) ==
    IF t = 1 THEN setDate(dt, dt.day - 2) ELSE dt

argumentAfter(t, dt) == dt

\* The session's date after the answers of questions i.. were computed.
RECURSIVE dateAfterAnswers(_, _, _)
dateAfterAnswers(questions, i, dt) ==
    IF i > Len(questions) THEN dt
    ELSE dateAfterAnswers(questions, i + 1, argumentAfter(questions[i], dt))

\* The label the click handler gives the reveal button.
toggleLabelOfNewValue(shown) == IF shown THEN "Hide Answers" ELSE "Reveal Answers"

toggleLabel(shown) == IF shown THEN "Reveal Answers" ELSE "Hide Answers"

\* The click handler of the reveal button, reading the stream t.
RevealClick(t) ==
    \E show \in {~showAnswers} :
    \E shown \in {IF fnBound
                  THEN showHideAnswers(show, currentQuestions, seeds, date, now,
                                       t, answerView)
                  ELSE [error |-> "none", view |-> answerView]} :
        /\ phase = "ready"
        /\ revealLabel' = toggleLabel(showAnswers)
        /\ showAnswers' = show
        /\ answerView' = shown.view
        /\ thrown' = shown.error
        /\ firstReveal' = IF show /\ fnBound /\ firstReveal = NoReveal
                          THEN shown.view ELSE firstReveal
        /\ toggles' = IF toggles = "none" THEN "one" ELSE "more"
        /\ date' = IF show /\ fnBound
                   THEN dateAfterAnswers(currentQuestions, 1, date) ELSE date
        /\ UNCHANGED <<now, questionGenerator, currentQuestions, seeds,
                       fnBound, calendarView, questionView, phase, pin, pout>>

\* The wall clock passes into the next month.
ClockTick ==
    /\ phase = "ready"
    /\ now < MaxNow - 1
    /\ now' = now + 1
    /\ UNCHANGED <<date, questionGenerator, currentQuestions, seeds, fnBound,
                   showAnswers, revealLabel, calendarView, questionView,
                   answerView, thrown, firstReveal, toggles, phase, pin, pout>>

Next ==
    \/ \E t \in Tapes : NewTest(t)
    \/ \E t \in Tapes : RevealClick(t)
    \/ ClockTick

Spec == Init /\ [][Next]_vars

-----------------------------------------------------------------------------
(* The calendar functions on their own: every year, month and draw *)

InitCalendar ==
    /\ pin \in [r1 : 0..(RandDen - 1), r2 : 0..(RandDen - 1), r3 : 0..(RandDen - 1)]
    /\ pout = NoResult
    /\ now = 0
    /\ date = NowDate(0)
    /\ questionGenerator = [i \in 1..CatalogSize |-> i]
    /\ currentQuestions = <<>>
    /\ seeds = <<>>
    /\ fnBound = FALSE
    /\ showAnswers = FALSE
    /\ revealLabel = "Reveal Answers"
    /\ calendarView = NoCalendar
    /\ questionView = <<>>
    /\ answerView = <<>>
    /\ thrown = "none"
    /\ firstReveal = NoReveal
    /\ toggles = "none"
    /\ phase = "boot"

\* The month that generateRandomDate draws from pin.
PinMonth ==
    NewDate(getRandomInt(2019, 2049, Undefined, pin.r1),
            getRandomInt(0, 11, Undefined, pin.r2), 1)

ApplyGenerateRandomDate ==
    /\ pout.fn = "none"
    /\ pout' = [fn |-> "generateRandomDate",
                date |-> generateRandomDate(pin.r1, pin.r2, pin.r3),
                weeks |-> getWeeks(PinMonth)]
    /\ UNCHANGED <<pin, sessionVars>>

ApplyGetWeeks ==
    /\ pout.fn = "none"
    /\ pout' = [fn |-> "getWeeks", date |-> PinMonth, weeks |-> getWeeks(PinMonth)]
    /\ UNCHANGED <<pin, sessionVars>>

NextCalendar == ApplyGenerateRandomDate \/ ApplyGetWeeks

SpecCalendar == InitCalendar /\ [][NextCalendar]_vars

-----------------------------------------------------------------------------
(* The template functions on their own: createQuestion(date, seed) and     *)
(* answer(date, seed), each called at two readings of the wall clock        *)

\* The reference dates the template functions are called with.
ReferenceDates ==
    {d \in [year : {2024}, month : 0..11, day : {1, 15, 31}] :
        NewDate(d.year, d.month, d.day) = d}

InitTemplates ==
    /\ pin \in [template : 1..CatalogSize, date : ReferenceDates,
                seed : 0..(RandDen - 1),
                now1 : 0..(MaxNow - 1), now2 : 0..(MaxNow - 1)]
    /\ pin.now1 <= pin.now2
    /\ pout = NoResult
    /\ now = 0
    /\ date = NowDate(0)
    /\ questionGenerator = [i \in 1..CatalogSize |-> i]
    /\ currentQuestions = <<>>
    /\ seeds = <<>>
    /\ fnBound = FALSE
    /\ showAnswers = FALSE
    /\ revealLabel = "Reveal Answers"
    /\ calendarView = NoCalendar
    /\ questionView = <<>>
    /\ answerView = <<>>
    /\ thrown = "none"
    /\ firstReveal = NoReveal
    /\ toggles = "none"
    /\ phase = "boot"

ApplyAnswer ==
    /\ pout.fn = "none"
    /\ pout' = [fn |-> "answer",
                first |-> answer(pin.template, pin.date, pin.seed, 0, pin.now1),
                second |-> answer(pin.template, pin.date, pin.seed, 0, pin.now2)]
    /\ UNCHANGED <<pin, sessionVars>>

ApplyCreateQuestion ==
    /\ pout.fn = "none"
    /\ pout' = [fn |-> "createQuestion",
                first |-> createQuestion(pin.template, pin.date, pin.seed, 0,
                                         pin.now1),
                second |-> createQuestion(pin.template, pin.date, pin.seed, 0,
                                          pin.now2)]
    /\ UNCHANGED <<pin, sessionVars>>

NextTemplates == ApplyAnswer \/ ApplyCreateQuestion

SpecTemplates == InitTemplates /\ [][NextTemplates]_vars

-----------------------------------------------------------------------------
(* The numeral localizer and dynamicYear on their own *)

\* The largest number toKanji and toHiragana are written for.
MaxNumeral == 9999

\* How far beyond 0..MaxNumeral the inputs go.
Beyond == 20

\* toKanji(number) and toHiragana(number): both return a string for every
\* number and never throw.
localize(number) ==
    [error |-> "none", kanji |-> toKanji(number), hiragana |-> toHiragana(number)]

InitNumerals ==
    /\ pin \in [number : (0 - Beyond)..(MaxNumeral + Beyond)]
    /\ pout = NoResult
    /\ now = 0
    /\ date = NowDate(0)
    /\ questionGenerator = [i \in 1..CatalogSize |-> i]
    /\ currentQuestions = <<>>
    /\ seeds = <<>>
    /\ fnBound = FALSE
    /\ showAnswers = FALSE
    /\ revealLabel = "Reveal Answers"
    /\ calendarView = NoCalendar
    /\ questionView = <<>>
    /\ answerView = <<>>
    /\ thrown = "none"
    /\ firstReveal = NoReveal
    /\ toggles = "none"
    /\ phase = "boot"

ApplyLocalizer ==
    /\ pout.fn = "none"
    /\ pout' = [fn |-> "localizer", numeral |-> localize(pin.number)]
    /\ UNCHANGED <<pin, sessionVars>>

ApplyDynamicYear ==
    /\ pout.fn = "none"
    /\ pout' = [fn |-> "dynamicYear", year |-> dynamicYear(pin.number)]
    /\ UNCHANGED <<pin, sessionVars>>

NextNumerals == ApplyLocalizer \/ ApplyDynamicYear

SpecNumerals == InitNumerals /\ [][NextNumerals]_vars

-----------------------------------------------------------------------------
(* Properties *)

\* The questions of the session that pick a day of a week.
WeekQuestions == {i \in 1..Len(questionView) : currentQuestions[i] \in WeekRelative}

\* The hosts that show an answer.
Answered == {i \in 1..Len(answerView) : answerView[i] # EmptyHost}

\* C1: the day a week-relative answer is about is the day its question was
\* rendered for.
C1_SameTargetDay ==
    \A i \in WeekQuestions \cap Answered :
        answerView[i].target = questionView[i].target

\* C2: every reveal of a session shows the answers its first reveal showed.
C2_SameAnswersOnEveryReveal ==
    (showAnswers /\ fnBound /\ firstReveal # NoReveal) => answerView = firstReveal

\* C3: after newTest the seed list holds one number of [0, 1) per question.
C3_OneNumericSeedPerQuestion ==
    phase = "ready" =>
        /\ Len(seeds) = Len(currentQuestions)
        /\ \A i \in 1..Len(seeds) : Element(seeds, i) \in 0..(RandDen - 1)

\* C4: generateRandomDate returns a date of the drawn month that lies in a
\* row of the month's grid other than the first and the last.
C4_DateInInnerRow ==
    pout.fn = "generateRandomDate" =>
        /\ pout.date # UndefinedDate
        /\ pout.date # Null
        /\ pout.date.year = getRandomInt(2019, 2049, Undefined, pin.r1)
        /\ pout.date.month = getRandomInt(0, 11, Undefined, pin.r2)
        /\ findIndex(pout.weeks, pout.date) >= 1
        /\ findIndex(pout.weeks, pout.date) <= Len(pout.weeks) - 2
        /\ At(pout.weeks, findIndex(pout.weeks, pout.date))[getDay(pout.date) + 1]
             = pout.date

\* C4 witness: the last candidate of a month whose last week holds one day.
C4_Witness ==
    /\ pout.fn = "generateRandomDate"
    /\ Len(FilterDates(pout.weeks[Len(pout.weeks)])) = 1
    /\ findIndex(pout.weeks, pout.date) = Len(pout.weeks) - 2
    /\ getDay(pout.date) = 5

\* The length of a month by the Gregorian rule.
GregorianDays(year, month) ==
    CASE month = 1 ->
            IF year % 4 = 0 /\ (year % 100 # 0 \/ year % 400 = 0) THEN 29 ELSE 28
      [] month \in {3, 5, 8, 10} -> 30
      [] OTHER -> 31

\* C5: the dates of getWeeks, read row by row, are the days 1..daysInMonth
\* of the month in order, each in the slot of its weekday.
C5_GridIsTheMonth ==
    pout.fn = "getWeeks" =>
        /\ FilterDates(Flat(pout.weeks)) =
              [i \in 1..GregorianDays(pout.date.year, pout.date.month) |->
                  [year |-> pout.date.year, month |-> pout.date.month, day |-> i]]
        /\ \A r \in 1..Len(pout.weeks) : \A s \in 1..7 :
              pout.weeks[r][s] # Null => getDay(pout.weeks[r][s]) = s - 1

\* C5 witness: a month of six rows that ends in a partial week.
C5_Witness ==
    /\ pout.fn = "getWeeks"
    /\ Len(pout.weeks) = 6
    /\ Len(FilterDates(pout.weeks[1])) = 1
    /\ Len(FilterDates(pout.weeks[6])) = 2

\* C6: the question list is a permutation of the catalog, and the catalog
\* is as it was.
C6_PermutationOfCatalog ==
    phase = "ready" =>
        /\ Len(currentQuestions) = CatalogSize
        /\ {currentQuestions[i] : i \in 1..Len(currentQuestions)} = 1..CatalogSize
        /\ questionGenerator = [i \in 1..CatalogSize |-> i]

\* C6 witness: a session whose first and last questions are not the
\* catalog's.
C6_Witness ==
    /\ phase = "ready"
    /\ currentQuestions[1] # questionGenerator[1]
    /\ currentQuestions[CatalogSize] # questionGenerator[CatalogSize]

\* The row of the reference date's own grid that a week-relative template
\* is about.
OwnRow(t) == findIndex(getWeeks(date), date) + WeekOffset(t)

\* C7: the day picked for a week-relative question is a date of the
\* reference date's month, in the row before, of, or after the reference date.
C7_TargetFromReferenceDate ==
    \A i \in WeekQuestions :
        /\ Has(getWeeks(date), OwnRow(currentQuestions[i]))
        /\ \E s \in 1..7 :
              At(getWeeks(date), OwnRow(currentQuestions[i]))[s]
                = questionView[i].target

\* C8: no handler ends on a missing week row.
C8_WeekRowsExist == thrown # "weeks"

\* The span a weekday -> date answer would show if it stated the date.
DateSpan(off, dt, target) ==
    joinWithArrow(<<"What date " \o weekPhrase(off, target, dt) \o
                    At(daysOfWeek, getDay(target) % 7).english \o "?",
                    At(days, target.day - 1).english,
                    At(days, target.day - 1).kanji,
                    At(days, target.day - 1).hiragana>>)

\* C9: the answer of a weekday -> date question states the day of the month
\* of its target day.
C9_AnswerStatesTheDate ==
    \A i \in Answered :
        currentQuestions[i] \in WeekdayToDate =>
            answerView[i].spans =
                <<DateSpan(WeekOffset(currentQuestions[i]), date,
                           answerView[i].target)>>

\* C10: answers are visible exactly when every question shows its answer,
\* and hidden exactly when none does.
C10_VisibleIffDisplayed ==
    phase = "ready" =>
        /\ showAnswers =>
              /\ Len(answerView) = Len(currentQuestions)
              /\ Answered = 1..Len(currentQuestions)
        /\ ~showAnswers => Answered = {}

\* C11: after every newTest the answers are hidden and none is displayed,
\* and the next click on the reveal button reveals the answers.
C11_NewTestResetsVisibility ==
    /\ (phase = "ready" /\ toggles = "none") =>
          (~showAnswers /\ Answered = {})
    /\ toggles = "one" =>
          (showAnswers /\ Answered = 1..Len(currentQuestions))

\* C12: the reveal button reads "Hide Answers" exactly when the answers are
\* visible and "Reveal Answers" exactly when they are not.
C12_LabelMatchesVisibility ==
    /\ revealLabel = "Hide Answers" <=> showAnswers
    /\ revealLabel = "Reveal Answers" <=> ~showAnswers

\* C12 witness: a reveal that ended on an error, after the label changed.
C12_Witness ==
    /\ showAnswers
    /\ revealLabel = "Hide Answers"
    /\ thrown # "none"
    /\ toggles = "more"

\* C13: two calls of answer(d, s) with the same date and the same numeric
\* seed return the same output.
C13_AnswerIsAFunctionOfDateAndSeed ==
    pout.fn = "answer" => pout.first = pout.second

\* C14: the localizer returns the known kanji and hiragana of 0, 100, 300,
\* 1000, 3000 and 2024.
C14_KnownNumerals ==
    pout.fn = "localizer" =>
        /\ pin.number = 0 =>
              (pout.numeral.kanji = "<zero>" /\ pout.numeral.hiragana = "rei")
        /\ pin.number = 100 =>
              (pout.numeral.kanji = "<hyaku>" /\ pout.numeral.hiragana = "hyaku")
        /\ pin.number = 300 =>
              /\ pout.numeral.kanji = "<san><hyaku>"
              /\ pout.numeral.hiragana = "sanbyaku"
        /\ pin.number = 1000 =>
              (pout.numeral.kanji = "<sen>" /\ pout.numeral.hiragana = "sen")
        /\ pin.number = 3000 =>
              /\ pout.numeral.kanji = "<san><sen>"
              /\ pout.numeral.hiragana = "sanzen"
        /\ pin.number = 2024 =>
              /\ pout.numeral.kanji = "<ni><sen><ni><juu><yon>"
              /\ pout.numeral.hiragana = "nisennijuuyon"

\* C14 witness: the localizer was applied to 2024.
C14_Witness ==
    /\ pout.fn = "localizer"
    /\ pin.number = 2024
    /\ pout.numeral.hiragana = "nisennijuuyon"

\* The three era fields of r carry the era year of the western year y.
EraFieldsReport(y, r) ==
    /\ r.imperialEnglish = "Reiwa " \o ToString(y - 2018)
    /\ toKanji(y - 2018) # ""
    /\ r.imperialKanji = "<rei><wa>" \o toKanji(y - 2018) \o "<nen>"
    /\ toHiragana(y - 2018) # ""
    /\ r.imperialHiragana = "reiwa" \o toHiragana(y - 2018) \o "nen"
    /\ y = 2019 =>
          /\ r.imperialEnglish = "Reiwa 1"
          /\ r.imperialKanji = "<rei><wa><ichi><nen>"
          /\ r.imperialHiragana = "reiwaichinen"
    /\ y = 2024 =>
          /\ r.imperialEnglish = "Reiwa 6"
          /\ r.imperialKanji = "<rei><wa><roku><nen>"
          /\ r.imperialHiragana = "reiwarokunen"

\* C15 as stated: for every western year y the three era fields of
\* dynamicYear(y) report the era year y - 2018.
C15_EraYearForEveryYear ==
    pout.fn = "dynamicYear" => EraFieldsReport(pin.number, pout.year)

\* C15 as amended: for every western year y whose era year y - 2018 is in
\* 0..9999 the three era fields of dynamicYear(y) report the era year.
C15_EraYearFromEpoch ==
    (pout.fn = "dynamicYear" /\ pin.number - 2018 \in 0..MaxNumeral) =>
        EraFieldsReport(pin.number, pout.year)

\* C15 witness: dynamicYear was applied to 2024.
C15_Witness ==
    /\ pout.fn = "dynamicYear"
    /\ pin.number = 2024
    /\ pout.year.imperialYear = 6

\* C18: the localizer aborts for a number outside 0..9999.
C18_OutOfRangeAborts ==
    (pout.fn = "localizer" /\ pin.number \notin 0..MaxNumeral) =>
        pout.numeral.error # "none"

\* The reference date of the end-to-end scenario, 2024-06-15.
ScenarioDate == [year |-> 2024, month |-> 5, day |-> 15]

\* C16: with reference date 2024-06-15 "today" is Saturday, "the day before
\* yesterday" was the 13th, and "this year" is 2024, Reiwa 6.
C16_ScenarioAnswers ==
    (pout.fn = "answer" /\ pin.date = ScenarioDate) =>
        /\ pin.template = 3 =>
              /\ pout.first.error = "none"
              /\ pout.first.spans =
                    <<"What day is it today? -> Saturday -> "
                      \o "<do><you><nichi> -> doyoubi">>
        /\ pin.template = 6 =>
              /\ pout.first.error = "none"
              /\ pout.first.spans =
                    <<"What date was it the day before yesterday? -> 13th -> "
                      \o "<juu><san><nichi> -> juusannichi">>
        /\ pin.template = 15 =>
              /\ pout.first.error = "none"
              /\ pout.first.spans =
                    <<"What year is it this year? -> 2024 - 2019 + 1 -> Reiwa 6 -> "
                      \o "<rei><wa><roku><nen> -> reiwarokunen",
                      "OR",
                      "2024 -> <ni><sen><ni><juu><yon><nen> -> nisennijuuyonnen">>

\* C16 witness: the "day before yesterday" date answer for 2024-06-15.
C16_Witness ==
    /\ pout.fn = "answer"
    /\ pin.date = ScenarioDate
    /\ pin.template = 6
    /\ pout.first.error = "none"

\* The titles of the three month answers, by template.
MonthTitle(t) ==
    CASE t = 11 -> "What month was it last month?"
      [] t = 12 -> "What month is it this month?"
      [] t = 13 -> "What month is it next month?"

\* The month index clamped to 0..11.
Clamped(i) == Max(0, Min(11, i))

\* C17: a month answer states the adjacent month, clamped to January and
\* December and never wrapped; the index it reads is within 0..11.
C17_MonthsClampNeverWrap ==
    (pout.fn = "answer" /\ pin.template \in 11..13) =>
        /\ pout.first.error = "none"
        /\ pout.first.spans =
              <<joinWithArrow(
                  <<MonthTitle(pin.template),
                    At(months, Clamped(pin.date.month + pin.template - 12)).english,
                    At(months, Clamped(pin.date.month + pin.template - 12)).kanji,
                    At(months, Clamped(pin.date.month + pin.template - 12)).hiragana
                  >>)>>

\* C19: a week-relative template that finds no row with the reference
\* date's day aborts; it builds no question and no answer.
C19_NoMatchingRowAborts ==
    (/\ pout.fn \in {"answer", "createQuestion"}
     /\ pin.template \in WeekRelative
     /\ findIndex(getWeeks(NowDate(pin.now1)), pin.date) = -1) =>
        pout.first.error # "none"

ThisWeekQuestions == {i \in WeekQuestions : WeekOffset(currentQuestions[i]) = 0}

\* Day a is a calendar day strictly before day b.
DayBefore(a, b) ==
    \/ a.year < b.year
    \/ a.year = b.year /\ a.month < b.month
    \/ a.year = b.year /\ a.month = b.month /\ a.day < b.day

\* The question text of a "this week" template in the given tense.
ThisWeekQuestionText(t, target, past) ==
    "<ima><shuu>no" \o
    (IF t \in WeekdayToDate
     THEN At(daysOfWeek, getDay(target) % 7).kanji \o "ha<nani><nichi>"
     ELSE At(days, target.day - 1).kanji \o "ha<nani><you><nichi>") \o
    (IF past THEN "deshitaka?" ELSE "desuka?")

\* The title of the answer of a "this week" template in the given tense.
ThisWeekAnswerTitle(t, target, past) ==
    (IF t \in WeekdayToDate THEN "What date " ELSE "What day ") \o
    (IF past THEN "was" ELSE "is") \o " this week's " \o
    (IF t \in WeekdayToDate
     THEN At(daysOfWeek, getDay(target) % 7).english
     ELSE At(days, target.day - 1).english) \o "?"

\* C21: a "this week" question and its answer are in the past tense exactly
\* when their target day is a calendar day before the reference date, and
\* the question and its answer are in the same tense.
C21_ThisWeekTense ==
    /\ \A i \in ThisWeekQuestions :
          questionView[i].spans =
              <<ThisWeekQuestionText(currentQuestions[i], questionView[i].target,
                                     DayBefore(questionView[i].target, date))>>
    /\ \A i \in ThisWeekQuestions \cap Answered :
          /\ answerView[i].spans =
                <<joinWithArrow(
                    <<ThisWeekAnswerTitle(currentQuestions[i], answerView[i].target,
                                          DayBefore(answerView[i].target, date)),
                      At(daysOfWeek, getDay(answerView[i].target) % 7).english,
                      At(daysOfWeek, getDay(answerView[i].target) % 7).kanji,
                      At(daysOfWeek, getDay(answerView[i].target) % 7).hiragana>>)>>
          /\ DayBefore(answerView[i].target, date)
                <=> DayBefore(questionView[i].target, date)

\* A step of the click handler of the reveal button.
ToggleStep == revealLabel' # revealLabel /\ toggles' # "none"

\* C22: a toggle leaves the reference date, the question list, the seeds
\* and what is displayed of the session other than the answers unchanged.
C22_ToggleFrame ==
    [][ToggleStep =>
          /\ date' = date
          /\ currentQuestions' = currentQuestions
          /\ seeds' = seeds
          /\ questionGenerator' = questionGenerator
          /\ calendarView' = calendarView
          /\ questionView' = questionView]_vars

\* C22 witness: a reveal that computed every answer, the day-of-week
\* answers among them.
C22_Witness ==
    /\ toggles = "one"
    /\ showAnswers
    /\ thrown = "none"
    /\ Answered = 1..CatalogSize

\* C23: after newTest the reference date, the question list, the seeds,
\* the calendar and the displayed questions are those of one session, one
\* displayed question per template in list order, and the toggle is bound
\* to that session's questions.
C23_SessionReplacedAsAWhole ==
    phase = "ready" =>
        /\ calendarView = Calendar(date)
        /\ Len(seeds) = Len(currentQuestions)
        /\ Len(questionView) = Len(currentQuestions)
        /\ Len(answerView) = Len(currentQuestions)
        /\ \A i \in 1..Len(questionView) :
              /\ questionView[i].error = "none"
              /\ currentQuestions[i] \in 1..16 =>
                    questionView[i].spans = <<fixedQuestion[currentQuestions[i]]>>
              /\ currentQuestions[i] \in WeekRelative <=>
                    questionView[i].target # Null
        /\ fnBound

\* The decimal digit of n at the place 1, 10, 100 or 1000.
Digit(n, place) == (n \div place) % 10

\* The kanji of the digits 1..9.
Glyph(d) ==
    CASE d = 1 -> "<ichi>" [] d = 2 -> "<ni>" [] d = 3 -> "<san>"
      [] d = 4 -> "<yon>" [] d = 5 -> "<go>" [] d = 6 -> "<roku>"
      [] d = 7 -> "<nana>" [] d = 8 -> "<hachi>" [] d = 9 -> "<kyuu>"

\* A digit in a place: nothing for 0, the place glyph alone for 1, the
\* digit glyph and the place glyph above 1.
GlyphsOfPlace(d, place) ==
    IF d = 0 THEN "" ELSE IF d = 1 THEN place ELSE Glyph(d) \o place

\* C24: for n in 1..9999 toKanji(n) is the thousands, hundreds and tens
\* digit written by that rule, in that order, then the glyph of a non-zero
\* ones digit.
C24_KanjiByPlace ==
    (pout.fn = "localizer" /\ pin.number \in 1..MaxNumeral) =>
        pout.numeral.kanji =
            GlyphsOfPlace(Digit(pin.number, 1000), "<sen>") \o
            GlyphsOfPlace(Digit(pin.number, 100), "<hyaku>") \o
            GlyphsOfPlace(Digit(pin.number, 10), "<juu>") \o
            (IF Digit(pin.number, 1) = 0 THEN "" ELSE Glyph(Digit(pin.number, 1)))

\* C24 witness: a number with a digit 1 in the hundreds and the tens.
C24_Witness ==
    /\ pout.fn = "localizer"
    /\ pin.number = 2110
    /\ pout.numeral.kanji = "<ni><sen><hyaku><juu>"

\* The readings of the digits 1..9.
Reading(d) ==
    CASE d = 1 -> "ichi" [] d = 2 -> "ni" [] d = 3 -> "san"
      [] d = 4 -> "yon" [] d = 5 -> "go" [] d = 6 -> "roku"
      [] d = 7 -> "nana" [] d = 8 -> "hachi" [] d = 9 -> "kyuu"

\* The (place, digit) table of the readings.
ThousandsReading(d) ==
    CASE d = 0 -> "" [] d = 1 -> "sen" [] d = 3 -> "sanzen" [] d = 8 -> "hassen"
      [] OTHER -> Reading(d) \o "sen"

HundredsReading(d) ==
    CASE d = 0 -> "" [] d = 1 -> "hyaku" [] d = 3 -> "sanbyaku"
      [] d = 6 -> "roppyaku" [] d = 8 -> "happyaku"
      [] OTHER -> Reading(d) \o "hyaku"

TensReading(d) ==
    CASE d = 0 -> "" [] d = 1 -> "juu" [] OTHER -> Reading(d) \o "juu"

\* C25: for n in 1..9999 toHiragana(n) is the reading of its thousands,
\* hundreds and tens digit by the (place, digit) table, then the plain
\* reading of a non-zero ones digit.
C25_HiraganaByTable ==
    (pout.fn = "localizer" /\ pin.number \in 1..MaxNumeral) =>
        pout.numeral.hiragana =
            ThousandsReading(Digit(pin.number, 1000)) \o
            HundredsReading(Digit(pin.number, 100)) \o
            TensReading(Digit(pin.number, 10)) \o
            (IF Digit(pin.number, 1) = 0 THEN "" ELSE Reading(Digit(pin.number, 1)))

\* C25 witness: a number with contracted thousands and hundreds.
C25_Witness ==
    /\ pout.fn = "localizer"
    /\ pin.number = 3681
    /\ pout.numeral.hiragana = "sanzenroppyakuhachijuuichi"

\* The titles of the five day-of-week answers, by template.
DayOfWeekTitle(t) ==
    CASE t = 1 -> "What day was it the day before yesterday?"
      [] t = 2 -> "What day was it yesterday?"
      [] t = 3 -> "What day is it today?"
      [] t = 4 -> "What day is it tomorrow?"
      [] t = 5 -> "What day is it the day after tomorrow?"

\* The weekday, Sunday first, k days from the weekday w.
WeekdayPlus(w, k) == (w + k + 7) % 7

\* C26: the day-of-week answer for offset k names the weekday
\* (weekday(d) + k) mod 7 of the Sunday-first table, also when d + k is in
\* another month or year.
C26_WeekdayOfOffset ==
    (pout.fn = "answer" /\ pin.template \in 1..5) =>
        /\ pout.first.error = "none"
        /\ pout.first.spans =
              <<joinWithArrow(
                  <<DayOfWeekTitle(pin.template),
                    At(daysOfWeek,
                       WeekdayPlus(getDay(pin.date), pin.template - 3)).english,
                    At(daysOfWeek,
                       WeekdayPlus(getDay(pin.date), pin.template - 3)).kanji,
                    At(daysOfWeek,
                       WeekdayPlus(getDay(pin.date), pin.template - 3)).hiragana
                  >>)>>

\* C26 witness: the day before yesterday of 2024-01-01, a day of 2023.
C26_Witness ==
    /\ pout.fn = "answer"
    /\ pin.template = 1
    /\ pin.date = [year |-> 2024, month |-> 0, day |-> 1]
    /\ pout.first.spans =
          <<"What day was it the day before yesterday? -> Saturday -> "
            \o "<do><you><nichi> -> doyoubi">>

\* C27: the day of the month dd of a date of generateRandomDate satisfies
\* 3 <= dd <= daysInMonth - 2, so each day-of-month answer reads an entry of
\* the days table, the one of the calendar date d + k, in the same month.
C27_DayOfMonthInsideMonth ==
    pout.fn = "generateRandomDate" =>
        /\ pout.date.day >= 3
        /\ pout.date.day <= GregorianDays(pout.date.year, pout.date.month) - 2
        /\ \A k \in -2..2 :
              /\ Has(days, pout.date.day - 1 + k)
              /\ setDate(pout.date, pout.date.day + k).month = pout.date.month
              /\ dayOfMonthAnswer("", pout.date, k) =
                    entryAnswer("",
                                At(days,
                                   setDate(pout.date, pout.date.day + k).day - 1),
                                Null)

\* C27 witness: the 3rd of a month whose first week holds one day.
C27_Witness ==
    /\ pout.fn = "generateRandomDate"
    /\ pout.date.day = 3
    /\ Len(FilterDates(pout.weeks[1])) = 1

\* The last date of a row.
LastOfRow(row) == FilterDates(row)[Len(FilterDates(row))]

\* C28: every row of getWeeks has 7 slots and at least one date, ends at a
\* Saturday or at the last day of the month, and only the first and the last
\* row have empty slots.
C28_RowsOfTheGrid ==
    pout.fn = "getWeeks" =>
        \A r \in 1..Len(pout.weeks) :
            /\ Len(pout.weeks[r]) = 7
            /\ FilterDates(pout.weeks[r]) # <<>>
            /\ r < Len(pout.weeks) =>
                  /\ pout.weeks[r][7] # Null
                  /\ LastOfRow(pout.weeks[r]).day
                        < GregorianDays(pout.date.year, pout.date.month)
            /\ r = Len(pout.weeks) =>
                  LastOfRow(pout.weeks[r]).day
                     = GregorianDays(pout.date.year, pout.date.month)
            /\ (1 < r /\ r < Len(pout.weeks)) =>
                  Len(FilterDates(pout.weeks[r])) = 7

\* C28 witness: a month of four full rows.
C28_Witness ==
    /\ pout.fn = "getWeeks"
    /\ Len(pout.weeks) = 4
    /\ Len(FilterDates(pout.weeks[1])) = 7
    /\ Len(FilterDates(pout.weeks[4])) = 7

\* C29: the reference year is in 2019..2049, so the year answers pass the
\* localizer western years in 2018..2050 and era years in 0..32, all within
\* 0..9999.
C29_YearsInsideLocalizerRange ==
    pout.fn = "generateRandomDate" =>
        /\ pout.date.year \in 2019..2049
        /\ \A k \in -1..1 :
              /\ pout.date.year + k \in 2018..2050
              /\ pout.date.year + k \in 0..MaxNumeral
              /\ dynamicYear(pout.date.year + k).imperialYear \in 0..32
              /\ dynamicYear(pout.date.year + k).imperialYear \in 0..MaxNumeral

\* C29 witness: a date of 2019, whose "last year" has era year 0.
C29_Witness ==
    /\ pout.fn = "generateRandomDate"
    /\ pout.date.year = 2019
    /\ dynamicYear(pout.date.year - 1).imperialYear = 0

====
